---------------------------- MODULE Spec2Model ----------------------------
(***************************************************************************)
(* A model of krishhari2105/revanced-builds:                               *)
(*   scripts/build_from_repo.py  the batch pipeline (main, patch_app,      *)
(*                               fetch_tools, download_file, the resolver  *)
(*                               get_target_versions)                      *)
(*   scripts/build_logic.py      the single-app pipeline's resolver        *)
(*                               get_compatible_version and process_apk    *)
(*                                                                         *)
(* Text is modelled as a sequence of characters.  A few fixed words that   *)
(* the code only ever treats as a whole are one element each: "PN:" is the *)
(* literal "Package name:", "w" is a word of letters, and a package        *)
(* identifier or an app key is one element made of identifier characters.  *)
(***************************************************************************)
EXTENDS Naturals, Integers, Sequences, FiniteSets, TLC

(***************************************************************************)
(* Bounds of the model.                                                    *)
(***************************************************************************)
MaxLines == 4
MaxApps == 2
MaxAssets == 2

(***************************************************************************)
(* Characters.                                                             *)
(***************************************************************************)
Digits == {"0", "1", "2", "3", "4", "5", "6", "7", "8", "9"}

DigitVal(c) ==
    CASE c = "0" -> 0 [] c = "1" -> 1 [] c = "2" -> 2 [] c = "3" -> 3
      [] c = "4" -> 4 [] c = "5" -> 5 [] c = "6" -> 6 [] c = "7" -> 7
      [] c = "8" -> 8 [] c = "9" -> 9

IsSpace(c) == c = " "

\* The class [a-zA-Z0-9_.] : everything but blanks and punctuation.
IsIdentChar(c) == c \notin {" ", "(", ")", ",", "=", "PN:", "-"}

\* The class [\d\.,\s] of the parenthesised list.
IsListChar(c) == c \in Digits \/ c \in {".", ",", " "}

(***************************************************************************)
(* String helpers, each doing what the Python built-in does.               *)
(***************************************************************************)
IsPrefix(p, s) == Len(p) <= Len(s) /\ SubSeq(s, 1, Len(p)) = p

\* sub in s
Contains(s, sub) ==
    \E i \in 0..(Len(s) - Len(sub)) : SubSeq(s, i + 1, i + Len(sub)) = sub

\* c in s, for one character
HasChar(s, c) == \E i \in 1..Len(s) : s[i] = c

RECURSIVE LStripSet(_, _)
LStripSet(s, chars) ==
    IF s # <<>> /\ Head(s) \in chars THEN LStripSet(Tail(s), chars) ELSE s

RECURSIVE RStripSet(_, _)
RStripSet(s, chars) ==
    IF s # <<>> /\ s[Len(s)] \in chars
    THEN RStripSet(SubSeq(s, 1, Len(s) - 1), chars) ELSE s

\* s.strip()
Strip(s) == RStripSet(LStripSet(s, {" "}), {" "})

\* s.split(sep) for a one-character sep: the pieces between separators,
\* empty pieces kept.
RECURSIVE SplitAcc(_, _, _, _)
SplitAcc(s, sep, cur, acc) ==
    IF s = <<>> THEN Append(acc, cur)
    ELSE IF Head(s) = sep THEN SplitAcc(Tail(s), sep, <<>>, Append(acc, cur))
    ELSE SplitAcc(Tail(s), sep, Append(cur, Head(s)), acc)

Split(s, sep) == SplitAcc(s, sep, <<>>, <<>>)

\* re.split(r'[,\s]+', s): the pieces between maximal runs of separators.
RECURSIVE ReSplitAcc(_, _, _, _)
ReSplitAcc(s, cur, acc, inSep) ==
    IF s = <<>> THEN Append(acc, cur)
    ELSE IF Head(s) \in {",", " "}
         THEN IF inSep THEN ReSplitAcc(Tail(s), cur, acc, TRUE)
              ELSE ReSplitAcc(Tail(s), <<>>, Append(acc, cur), TRUE)
    ELSE ReSplitAcc(Tail(s), Append(cur, Head(s)), acc, FALSE)

ReSplitCommaSpace(s) == ReSplitAcc(s, <<>>, <<>>, FALSE)

\* x.isdigit()
IsDigitStr(x) == x # <<>> /\ \A i \in 1..Len(x) : x[i] \in Digits

\* int(x) of a digit string
RECURSIVE IntOf(_)
IntOf(x) ==
    IF x = <<>> THEN 0
    ELSE 10 * IntOf(SubSeq(x, 1, Len(x) - 1)) + DigitVal(x[Len(x)])

InClass(c, cls) ==
    CASE cls = "space" -> IsSpace(c)
      [] cls = "ident" -> IsIdentChar(c)
      [] cls = "list"  -> IsListChar(c)
      [] cls = "digit" -> c \in Digits

\* The length of the longest run of characters of the class in s from
\* position i on.
RECURSIVE RunLen(_, _, _)
RunLen(s, i, cls) ==
    IF i <= Len(s) /\ InClass(s[i], cls) THEN 1 + RunLen(s, i + 1, cls) ELSE 0

\* Python's list comparison a < b: lexicographic, a proper prefix is smaller.
RECURSIVE ListLess(_, _)
ListLess(a, b) ==
    IF b = <<>> THEN FALSE
    ELSE IF a = <<>> THEN TRUE
    ELSE IF Head(a) # Head(b) THEN Head(a) < Head(b)
    ELSE ListLess(Tail(a), Tail(b))

(***************************************************************************)
(* The three regular expressions of the resolvers.                         *)
(***************************************************************************)
NoMatch == <<>>

\* re.search(r"Package name:\s*([a-zA-Z0-9_.]+)", line).group(1), or NoMatch
RECURSIVE PkgMatchFrom(_, _)
PkgMatchFrom(line, i) ==
    IF i > Len(line) THEN NoMatch
    ELSE IF line[i] = "PN:"
         THEN LET sp == RunLen(line, i + 1, "space")
                  n  == RunLen(line, i + 1 + sp, "ident")
              IN  IF n >= 1 THEN SubSeq(line, i + 1 + sp, i + sp + n)
                  ELSE PkgMatchFrom(line, i + 1)
    ELSE PkgMatchFrom(line, i + 1)

PkgMatch(line) == PkgMatchFrom(line, 1)

\* The end of the longest (\.\d+)* starting at position i (i itself when
\* there is no group).
RECURSIVE DotGroupsEnd(_, _)
DotGroupsEnd(line, i) ==
    IF i <= Len(line) /\ line[i] = "." /\ RunLen(line, i + 1, "digit") >= 1
    THEN DotGroupsEnd(line, i + 1 + RunLen(line, i + 1, "digit"))
    ELSE i

\* re.match(r'^(v?\d+(\.\d+)+)', line).group(1), or NoMatch
VersionMatch(line) ==
    LET start == IF line # <<>> /\ Head(line) = "v" THEN 2 ELSE 1
        d     == RunLen(line, start, "digit")
        stop  == DotGroupsEnd(line, start + d)
    IN  IF d >= 1 /\ stop > start + d THEN SubSeq(line, 1, stop - 1)
        ELSE NoMatch

\* re.search(r'\(([\d\.,\s]+)\)', line).group(1), or NoMatch
RECURSIVE ParenMatchFrom(_, _)
ParenMatchFrom(line, i) ==
    IF i > Len(line) THEN NoMatch
    ELSE IF line[i] = "("
         THEN LET n == RunLen(line, i + 1, "list")
              IN  IF n >= 1 /\ i + 1 + n <= Len(line) /\ line[i + 1 + n] = ")"
                  THEN SubSeq(line, i + 1, i + n)
                  ELSE ParenMatchFrom(line, i + 1)
    ELSE ParenMatchFrom(line, i + 1)

ParenMatch(line) == ParenMatchFrom(line, 1)

(***************************************************************************)
(* Configuration of build_from_repo.py.                                    *)
(***************************************************************************)
AUTO == <<"auto">>

PKG_MAP ==
    [k \in {"youtube", "yt-music", "reddit", "twitter", "spotify"} |->
        CASE k = "youtube"  -> <<"com.google.android.youtube">>
          [] k = "yt-music" -> <<"com.google.android.apps.youtube.music">>
          [] k = "reddit"   -> <<"com.reddit.frontpage">>
          [] k = "twitter"  -> <<"com.twitter.android">>
          [] k = "spotify"  -> <<"com.spotify.music">>]

SOURCES == {"revanced", "inotia00", "anddea", "morphe"}

(***************************************************************************)
(* parse_version_override                                                  *)
(***************************************************************************)
\* The dict built from the "key=val" parts, later parts overwriting
\* earlier ones; the lookup of current_app in it, "auto" when absent.
RECURSIVE OverrideLookup(_, _, _)
OverrideLookup(parts, current_app, found) ==
    IF parts = <<>> THEN found
    ELSE LET kv == Split(Head(parts), "=")
         IN  OverrideLookup(Tail(parts), current_app,
                            IF Strip(kv[1]) = current_app THEN Strip(kv[2])
                            ELSE found)

parse_version_override(override_string, current_app) ==
    IF override_string = <<>> \/ override_string = AUTO THEN AUTO
    ELSE IF HasChar(override_string, "=")
         THEN LET parts == Split(override_string, ",")
              IN  IF \A i \in 1..Len(parts) : Len(Split(parts[i], "=")) = 2
                  THEN OverrideLookup(parts, current_app, AUTO)
                  ELSE AUTO      \* the unpacking raises, the except returns
    ELSE override_string

(***************************************************************************)
(* get_target_versions (build_from_repo.py): the grouped form.             *)
(***************************************************************************)
\* s.lstrip('v').split('.') with the non-digit pieces dropped, as integers
RECURSIVE IntsOfDigitPieces(_)
IntsOfDigitPieces(pieces) ==
    IF pieces = <<>> THEN <<>>
    ELSE IF IsDigitStr(Head(pieces))
         THEN <<IntOf(Head(pieces))>> \o IntsOfDigitPieces(Tail(pieces))
    ELSE IntsOfDigitPieces(Tail(pieces))

VersionSortKey(s) == IntsOfDigitPieces(Split(LStripSet(s, {"v"}), "."))

\* x put into a list sorted descending by key, behind the entries whose
\* key is not smaller: list.sort(key=..., reverse=True) is stable.
InsertDesc(sorted, x) ==
    LET smaller == {i \in 1..Len(sorted) :
                       ListLess(VersionSortKey(sorted[i]), VersionSortKey(x))}
        pos     == IF smaller = {} THEN Len(sorted) + 1
                   ELSE CHOOSE i \in smaller : \A j \in smaller : i <= j
    IN  SubSeq(sorted, 1, pos - 1) \o <<x>> \o SubSeq(sorted, pos, Len(sorted))

RECURSIVE SortVersionsAcc(_, _)
SortVersionsAcc(vs, acc) ==
    IF vs = <<>> THEN acc
    ELSE SortVersionsAcc(Tail(vs), InsertDesc(acc, Head(vs)))

SortVersions(vs) == SortVersionsAcc(vs, <<>>)

\* The loop over output.splitlines() without the test of current_pkg: a
\* version line is collected under whatever package is announced.
RECURSIVE ScanGrouped_any_package(_, _, _, _)
ScanGrouped_any_package(lines, package_name, current_pkg, versions) ==
    IF lines = <<>> THEN versions
    ELSE LET line == Strip(Head(lines))
             pkg  == PkgMatch(line)
             ver  == VersionMatch(line)
         IN  IF line = <<>>
             THEN ScanGrouped_any_package(Tail(lines), package_name,
                                          current_pkg, versions)
             ELSE IF pkg # NoMatch
             THEN ScanGrouped_any_package(Tail(lines), package_name, pkg,
                                          versions)
             ELSE IF current_pkg # NoMatch /\ ver # NoMatch
             THEN ScanGrouped_any_package(Tail(lines), package_name,
                                          current_pkg, Append(versions, ver))
             ELSE ScanGrouped_any_package(Tail(lines), package_name,
                                          current_pkg, versions)

\* The loop over output.splitlines(): current_pkg is the last package
\* announced, versions the tokens collected for package_name.
RECURSIVE ScanGrouped(_, _, _, _)
ScanGrouped(lines, package_name, current_pkg, versions) ==
    IF lines = <<>> THEN versions
    ELSE LET line == Strip(Head(lines))
             pkg  == PkgMatch(line)
             ver  == VersionMatch(line)
         IN  IF line = <<>>
             THEN ScanGrouped(Tail(lines), package_name, current_pkg, versions)
             ELSE IF pkg # NoMatch
             THEN ScanGrouped(Tail(lines), package_name, pkg, versions)
             ELSE IF current_pkg = package_name /\ ver # NoMatch
             THEN ScanGrouped(Tail(lines), package_name, current_pkg,
                              Append(versions, ver))
             ELSE ScanGrouped(Tail(lines), package_name, current_pkg, versions)

\* get_target_versions with the listing tool run before the manual version
\* is looked at.
get_target_versions_tool_first(package_name, manual_version, run) ==
    IF run.err
    THEN [raised |-> TRUE, versions |-> <<>>, invoked |-> TRUE]
    ELSE IF manual_version # <<>> /\ manual_version # AUTO
    THEN [raised |-> FALSE, versions |-> <<manual_version>>, invoked |-> TRUE]
    ELSE LET versions == ScanGrouped(run.out, package_name, NoMatch, <<>>)
         IN  IF versions # <<>>
             THEN [raised |-> FALSE, versions |-> SortVersions(versions),
                   invoked |-> TRUE]
             ELSE [raised |-> TRUE, versions |-> <<>>, invoked |-> TRUE]

\* A run of the listing tool is [err, out]: it exited with an error, or it
\* wrote the lines out.  The result is [raised, versions, invoked].
get_target_versions(package_name, manual_version, run) ==
    IF manual_version # <<>> /\ manual_version # AUTO
    THEN [raised |-> FALSE, versions |-> <<manual_version>>, invoked |-> FALSE]
    ELSE IF run.err
    THEN [raised |-> TRUE, versions |-> <<>>, invoked |-> TRUE]
    ELSE LET versions == ScanGrouped(run.out, package_name, NoMatch, <<>>)
         IN  IF versions # <<>>
             THEN [raised |-> FALSE, versions |-> SortVersions(versions),
                   invoked |-> TRUE]
             ELSE [raised |-> TRUE, versions |-> <<>>, invoked |-> TRUE]

(***************************************************************************)
(* get_compatible_version (build_logic.py): the inline form.               *)
(***************************************************************************)
\* [v.strip() for v in re.split(r'[,\s]+', v_str) if v.strip()], as a set
InlineTokens(v_str) ==
    LET pieces == ReSplitCommaSpace(v_str)
    IN  {Strip(pieces[i]) : i \in {j \in 1..Len(pieces) : Strip(pieces[j]) # <<>>}}

RECURSIVE ScanInline(_, _, _)
ScanInline(lines, package_name, versions) ==
    IF lines = <<>> THEN versions
    ELSE LET line  == Head(lines)
             match == ParenMatch(line)
         IN  IF Contains(line, package_name) /\ match # NoMatch
             THEN ScanInline(Tail(lines), package_name,
                             versions \cup InlineTokens(match))
             ELSE ScanInline(Tail(lines), package_name, versions)

RECURSIVE IntsOfPieces(_)
IntsOfPieces(pieces) ==
    IF pieces = <<>> THEN <<>>
    ELSE <<IntOf(Head(pieces))>> \o IntsOfPieces(Tail(pieces))

\* version_key: int() raises ValueError on an empty piece, and the key is [0]
version_key(v) ==
    LET pieces == Split(v, ".")
    IN  IF \A i \in 1..Len(pieces) : IsDigitStr(pieces[i])
        THEN IntsOfPieces(pieces) ELSE <<0>>

\* The possible results: [kind |-> "version", value], [kind |-> "none"],
\* or [kind |-> "exit"] (error() ends the process).  sorted() runs over
\* list(versions), whose order is the set's: among the versions of the
\* greatest key any may come first.
get_compatible_version(package_name, manual_version, run) ==
    IF manual_version # <<>> /\ manual_version # AUTO
    THEN {[kind |-> "version", value |-> manual_version, invoked |-> FALSE]}
    ELSE IF run.err
    THEN {[kind |-> "exit", value |-> <<>>, invoked |-> TRUE]}
    ELSE LET versions == ScanInline(run.out, package_name, {})
         IN  IF versions = {}
             THEN {[kind |-> "none", value |-> <<>>, invoked |-> TRUE]}
             ELSE {[kind |-> "version", value |-> v, invoked |-> TRUE] :
                     v \in {x \in versions :
                              \A y \in versions :
                                 ~ListLess(version_key(x), version_key(y))}}

(***************************************************************************)
(* The Artifact Fetcher: get_auth_headers and download_file.               *)
(***************************************************************************)
get_auth_headers(token) ==
    IF token THEN {"Authorization", "User-Agent"} ELSE {"User-Agent"}

\* download_file without lines 76-77: the redirect target is sent the
\* headers of the first request.
redirect_headers_kept(headers) == headers

\* The headers of the request to the redirect target (lines 76-77).
redirect_headers(headers) == headers \ {"Authorization"}

REDIRECTS == {301, 302, 307, 308}

\* What the network does to one download: the status of the first
\* response, the status of the response of the redirect target, and
\* whether the body streams to its end.  Status 0 stands for a request that
\* raises (no connection, timeout).
NetOutcomes ==
    {[first |-> f, second |-> 0, stream |-> TRUE] : f \in {404, 500, 0}}
    \cup {[first |-> 200, second |-> 0, stream |-> b] : b \in BOOLEAN}
    \cup {[first |-> f, second |-> x, stream |-> TRUE] :
            f \in REDIRECTS, x \in {404, 500, 0}}
    \cup {[first |-> f, second |-> 200, stream |-> b] :
            f \in REDIRECTS, b \in BOOLEAN}

\* download_file(url, filename) under the network's answer net, with the
\* destination in state before ("absent", "partial" or "complete"):
\* [ok, file, reqs], the value returned, the destination afterwards, and
\* the requests sent, each [url, headers].
download_file(token, net, before) ==
    LET headers == get_auth_headers(token) \cup {"Accept"}
        req1    == [url |-> "url", headers |-> headers]
        req2    == [url |-> "Location", headers |-> redirect_headers(headers)]
        written == IF net.stream THEN "complete" ELSE "partial"
    IN  IF net.first = 0
        THEN [ok |-> FALSE, file |-> before, reqs |-> <<req1>>]
        ELSE IF net.first = 404
        THEN [ok |-> FALSE, file |-> before, reqs |-> <<req1>>]
        ELSE IF net.first \in REDIRECTS
        THEN IF net.second = 200
             THEN [ok |-> net.stream, file |-> written, reqs |-> <<req1, req2>>]
             ELSE [ok |-> FALSE, file |-> before, reqs |-> <<req1, req2>>]
        ELSE IF net.first = 200
        THEN [ok |-> net.stream, file |-> written, reqs |-> <<req1>>]
        ELSE [ok |-> FALSE, file |-> before, reqs |-> <<req1>>]

(***************************************************************************)
(* The Release Locator: get_latest_github_release, fetch_tools.get_asset   *)
(* and find_apk_in_release.  The answer of the release index is           *)
(* [ok, assets]: ok is FALSE when get_latest_github_release returns None,  *)
(* assets are the names of the release's assets.  None, for a name, is     *)
(* the empty name.                                                         *)
(***************************************************************************)
None == <<>>

NoRelease == [ok |-> FALSE, assets |-> <<>>]

\* word in name, for the words the code looks for
HasWord(name, word) ==
    \E i \in 1..Len(name) :
        \/ name[i] = word
        \/ word = "source" /\ name[i] = "sources"
        \/ word = "all" /\ name[i] = "install"

EndsWith(name, ext) == name # <<>> /\ name[Len(name)] = ext

\* The loop of get_asset from asset i on: the name returned, or None.
RECURSIVE GetAssetFrom(_, _, _)
GetAssetFrom(assets, ext, i) ==
    IF i > Len(assets) THEN None
    ELSE IF EndsWith(assets[i], ext) /\ ~HasWord(assets[i], "source")
         THEN IF /\ ext = ".jar"
                 /\ ~HasWord(assets[i], "all")
                 /\ \E j \in 1..Len(assets) : HasWord(assets[j], "all")
              THEN GetAssetFrom(assets, ext, i + 1)
              ELSE assets[i]
    ELSE GetAssetFrom(assets, ext, i + 1)

get_asset(release, ext) ==
    IF ~release.ok THEN None ELSE GetAssetFrom(release.assets, ext, 1)

APK_EXTS == {".apk", ".apkm", ".apks", ".xapk"}
BUNDLE_EXTS == {".apkm", ".apks", ".xapk"}

\* The loop of find_apk_in_release: the first asset whose name starts with
\* "<app_name>-v<version>" and ends with a package extension, or None.
RECURSIVE FindApkFrom(_, _, _)
FindApkFrom(assets, target_base, i) ==
    IF i > Len(assets) THEN None
    ELSE IF /\ IsPrefix(target_base, assets[i])
            /\ \E e \in APK_EXTS : EndsWith(assets[i], e)
         THEN assets[i]
    ELSE FindApkFrom(assets, target_base, i + 1)

\* [raised, name]: the release could not be fetched and the function
\* raises, or the asset found (None when there is none).
find_apk_in_release(app_name, version, release) ==
    IF ~release.ok THEN [raised |-> TRUE, name |-> None]
    ELSE [raised |-> FALSE,
          name |-> FindApkFrom(release.assets,
                              <<app_name, "-", "v">> \o version, 1)]

(***************************************************************************)
(* The inputs the model draws from.                                        *)
(***************************************************************************)
SeqsUpTo(S, n) == UNION {[1..k -> S] : k \in 0..n}

YOUTUBE == PKG_MAP["youtube"]
REDDIT == PKG_MAP["reddit"]

\* Lines of the listing tool's output.
Lines ==
    { <<"PN:", " ">> \o YOUTUBE,                     \* Package name: <youtube>
      <<"PN:", " ">> \o REDDIT,                      \* Package name: <reddit>
      <<" ", "1", ".", "2", " ", "(", "9", " ", "w", ")">>, \*  1.2 (9 patches)
      <<"1", ".", "1", "0">>,                        \* 1.10
      <<"v", "1", ".", "2">>,                        \* v1.2
      YOUTUBE \o <<" ", "(", "1", ".", "2", ",", " ", "1", ".", "1", "0", ")">>,
      REDDIT \o <<" ", "(", "1", ".", "2", ")">>,
      <<>> }                                         \* an empty line

ToolOutputs == SeqsUpTo(Lines, MaxLines)

ErrRun == [err |-> TRUE, out |-> <<>>]

ToolRuns == {ErrRun} \cup {[err |-> FALSE, out |-> o] : o \in ToolOutputs}

\* Values of the VERSION variable.
VersionInputs ==
    { <<>>, AUTO,
      <<"1", ".", "2">>,
      <<"youtube", "=", "1", ".", "1", "0">>,
      <<"youtube", "=", "1", ".", "2", ",", " ", "reddit", "=", "v", "1", ".", "2">>,
      <<"youtube", "=", "1", "=", "2">>,
      <<"youtube", "=", "1", ".", "2", ",", "reddit">> }

\* Values of VERSION in a batch run: automatic, one version for every app,
\* a version for one app.
BatchVersionInputs ==
    { AUTO, <<"1", ".", "2">>, <<"youtube", "=", "1", ".", "1", "0">> }

\* Asset names of the tool and patch-set releases.
ToolAssetNames ==
    { <<"cli", ".jar">>, <<"cli", "-", "all", ".jar">>,
      <<"cli", "-", "sources", ".jar">>,
      <<"patches", ".rvp">>, <<"patches", ".rvp", ".asc">> }

ToolReleases ==
    {NoRelease} \cup
    {[ok |-> TRUE, assets |-> a] : a \in SeqsUpTo(ToolAssetNames, MaxAssets)}

\* Asset names of the storage release.
StorageNames ==
    { <<"youtube", "-", "v", "1", ".", "2", ".apk">>,
      <<"youtube", "-", "v", "1", ".", "1", "0", ".apkm">>,
      <<"youtube", "-", "v", "1", ".", "2", "0", ".xapk">>,
      <<"youtube", "-", "v", "1", ".", "2", ".txt">> }

StorageReleases ==
    {NoRelease} \cup
    {[ok |-> TRUE, assets |-> a] : a \in SeqsUpTo(StorageNames, MaxAssets)}

\* App keys of APPS_LIST: one of PKG_MAP and one that is not.
BatchKeys == {"youtube", "nosuchapp"}

\* Apps the resolvers are called for on their own.
ResolverApps == {"youtube", "reddit"}

(***************************************************************************)
(* The state of a batch run of build_from_repo.py.                         *)
(***************************************************************************)
VARIABLES
    env,            \* [source, token, version]: PATCH_SOURCE, whether
                    \* PRIVATE_REPO_TOKEN is set, VERSION
    apps,           \* apps_to_process
    pc,             \* where main, or the patch_app it called, stands
    fs,             \* the files: tools/<cli>, tools/<patches>,
                    \* tools/APKEditor.jar and downloads/<name>, each
                    \* "absent", "partial" or "complete"
    idx,            \* the position of the for loop of main in apps
    success_count,
    exit_status,    \* -1 while the process runs, then its exit status
    unit,           \* the locals of patch_app
    started,        \* the app keys logged "Starting ...", in order
    results,        \* what patch_app returned, call by call
    requests,       \* the requests of the latest download_file call
    patch_call,     \* the latest invocation of the patch tool
    fetch_failed,   \* a step of fetch_tools failed
    summary,        \* "Batch completed" was logged
    rq,             \* the resolver called on its own: its arguments
    rs              \* and its result

vars == <<env, apps, pc, fs, idx, success_count, exit_status, unit, started,
          results, requests, patch_call, fetch_failed, summary, rq, rs>>

\* Paths.  The tool and the patch-set are stored under the names of their
\* release assets, which the model does not tell apart.
CLI_PATH == <<"tools", "<cli_name>">>
PATCHES_PATH == <<"tools", "<patches_name>">>
APKEDITOR_PATH == <<"tools", "APKEditor.jar">>
DownloadPath(name) == <<"downloads">> \o name

Files ==
    {CLI_PATH, PATCHES_PATH, APKEDITOR_PATH}
    \cup {DownloadPath(n) : n \in StorageNames}

IdleUnit ==
    [app |-> "", cands |-> <<>>, i |-> 1, tried |-> <<>>, sel |-> None,
     apk |-> None, bundle |-> FALSE, final |-> "none"]

NoPatchCall ==
    [called |-> FALSE, input |-> "none", merged |-> FALSE, version |-> None]

Idle == [kind |-> "idle"]

Init ==
    /\ env \in [source : {"", "revanced", "nosuchsource"},
                token : BOOLEAN,
                version : BatchVersionInputs]
    /\ apps \in SeqsUpTo(BatchKeys, MaxApps)
    /\ pc = "main"
    /\ fs = [f \in Files |-> "absent"]
    /\ idx = 1
    /\ success_count = 0
    /\ exit_status = -1
    /\ unit = IdleUnit
    /\ started = <<>>
    /\ results = <<>>
    /\ requests = <<>>
    /\ patch_call = NoPatchCall
    /\ fetch_failed = FALSE
    /\ summary = FALSE
    /\ rq = Idle
    /\ rs = Idle

(***************************************************************************)
(* What each external call can answer, as the results of the function     *)
(* that makes the call over every answer of its collaborator.  These are   *)
(* constants of the model, computed once.                                  *)
(***************************************************************************)
KnownBatchKeys == BatchKeys \cap DOMAIN PKG_MAP

\* <<package, manual version, the run failed, get_target_versions' result>>
TargetVersionsTable ==
    {<<PKG_MAP[a], parse_version_override(v, <<a>>), run.err,
       get_target_versions(PKG_MAP[a], parse_version_override(v, <<a>>), run)>> :
        a \in KnownBatchKeys, v \in BatchVersionInputs, run \in ToolRuns}

CandidateVersions ==
    UNION {{t[4].versions[i] : i \in 1..Len(t[4].versions)} :
             t \in TargetVersionsTable}

\* <<app key, version, find_apk_in_release's result>>
FindApkTable ==
    {<<a, v, find_apk_in_release(a, v, release)>> :
        a \in KnownBatchKeys, v \in CandidateVersions,
        release \in StorageReleases}

\* <<extension, get_asset's result>>
GetAssetTable ==
    {<<ext, get_asset(release, ext)>> :
        ext \in {".jar", ".rvp"}, release \in ToolReleases}

\* <<token, destination before, download_file's result>>
DownloadTable ==
    {<<token, before, download_file(token, net, before)>> :
        token \in BOOLEAN, before \in {"absent", "partial", "complete"},
        net \in NetOutcomes}

\* java -jar <cli> ... can only succeed on files that are wholly there.
ToolsUsable == fs[CLI_PATH] = "complete" /\ fs[PATCHES_PATH] = "complete"

(***************************************************************************)
(* main, up to the loop.                                                   *)
(***************************************************************************)
\* sys.exit(1) before the loop (lines 315 and 328)
Abort == pc' = "aborted" /\ exit_status' = 1

\* The process ends after the loop, with this status.
Exit(status) == pc' = "exit" /\ exit_status' = status

\* The results download_file(<url>, path) can have in this state.
Downloads(path) ==
    {t[3] : t \in {x \in DownloadTable : x[1] = env.token /\ x[2] = fs[path]}}

\* Lines 309-322: PATCH_SOURCE missing ends the run.
MainStart ==
    /\ pc = "main"
    /\ IF env.source = "" THEN Abort
       ELSE pc' = "fetch_cli" /\ UNCHANGED exit_status
    /\ UNCHANGED <<env, apps, fs, idx, success_count, unit, started, results,
                   requests, patch_call, fetch_failed, summary, rq, rs>>

\* One half of fetch_tools without the os.path.exists test: the asset is
\* downloaded whether or not the file is there.
FetchAsset_no_exists_test(path, ext, next) ==
    \E a \in {t \in GetAssetTable : t[1] = ext} :
        IF env.source \notin SOURCES \/ a[2] = None
        THEN /\ Abort
             /\ fetch_failed' = TRUE
             /\ UNCHANGED <<fs, requests>>
        ELSE \E d \in Downloads(path) :
                 /\ fs' = [fs EXCEPT ![path] = d.file]
                 /\ requests' = d.reqs
                 /\ fetch_failed' = (fetch_failed \/ ~d.ok)
                 /\ pc' = next
                 /\ UNCHANGED exit_status

\* One half of fetch_tools: get_asset, then the download unless the file
\* exists.  An exception leaves fetch_tools and main exits (lines 326-328).
FetchAsset(path, ext, next) ==
    \E a \in {t \in GetAssetTable : t[1] = ext} :
        IF env.source \notin SOURCES \/ a[2] = None
        THEN /\ Abort
             /\ fetch_failed' = TRUE
             /\ UNCHANGED <<fs, requests>>
        ELSE IF fs[path] # "absent"
        THEN /\ pc' = next
             /\ UNCHANGED <<exit_status, fs, requests, fetch_failed>>
        ELSE \E d \in Downloads(path) :
                 /\ fs' = [fs EXCEPT ![path] = d.file]
                 /\ requests' = d.reqs
                 /\ fetch_failed' = (fetch_failed \/ ~d.ok)
                 /\ pc' = next
                 /\ UNCHANGED exit_status

FetchCli ==
    /\ pc = "fetch_cli"
    /\ FetchAsset(CLI_PATH, ".jar", "fetch_patches")
    /\ UNCHANGED <<env, apps, idx, success_count, unit, started, results,
                   patch_call, summary, rq, rs>>

FetchPatches ==
    /\ pc = "fetch_patches"
    /\ FetchAsset(PATCHES_PATH, ".rvp", "loop")
    /\ UNCHANGED <<env, apps, idx, success_count, unit, started, results,
                   patch_call, summary, rq, rs>>

(***************************************************************************)
(* patch_app, one external call at a time.                                 *)
(***************************************************************************)
\* return b, and the loop of main goes on (lines 334-335)
Return(b) ==
    /\ pc' = "loop"
    /\ idx' = idx + 1
    /\ results' = Append(results, b)
    /\ success_count' = IF b THEN success_count + 1 ELSE success_count
    /\ UNCHANGED exit_status

\* patch_app without its except clause: the exception leaves main.
Raise_uncaught ==
    /\ pc' = "exit"
    /\ exit_status' = 1
    /\ UNCHANGED <<idx, results, success_count>>

\* An exception inside the try of patch_app (lines 304-306).
Raise == Return(FALSE)

\* Lines 331-333 and 244-247.
StartUnit ==
    /\ pc = "loop"
    /\ idx <= Len(apps)
    /\ started' = Append(started, apps[idx])
    /\ patch_call' = NoPatchCall
    /\ requests' = <<>>
    /\ IF apps[idx] \notin DOMAIN PKG_MAP
       THEN Return(FALSE) /\ unit' = IdleUnit
       ELSE /\ pc' = "resolve"
            /\ unit' = [IdleUnit EXCEPT !.app = apps[idx]]
            /\ UNCHANGED <<idx, results, success_count, exit_status>>
    /\ UNCHANGED <<env, apps, fs, fetch_failed, summary, rq, rs>>

\* What get_target_versions can return in this state: the listing tool can
\* only run on files that are wholly there.
TargetVersionsResults ==
    LET package_name == PKG_MAP[unit.app]
        manual       == parse_version_override(env.version, <<unit.app>>)
    IN  {t[4] : t \in {x \in TargetVersionsTable :
                          /\ x[1] = package_name
                          /\ x[2] = manual
                          /\ ToolsUsable \/ x[3]}}

\* Lines 250-251.
ResolveVersions ==
    /\ pc = "resolve"
    /\ \E r \in TargetVersionsResults :
         IF r.raised THEN Raise /\ UNCHANGED unit
         ELSE /\ unit' = [unit EXCEPT !.cands = r.versions]
              /\ pc' = "find"
              /\ UNCHANGED <<idx, results, success_count, exit_status>>
    /\ UNCHANGED <<env, apps, fs, started, requests, patch_call, fetch_failed,
                   summary, rq, rs>>

\* The loop without its break: a hit is recorded and the loop goes on.
candidate_step_no_break(u, name) ==
    IF name # None
    THEN [u EXCEPT !.tried = Append(@, [ver |-> u.cands[u.i], hit |-> TRUE]),
                   !.sel = u.cands[u.i], !.apk = name, !.i = @ + 1]
    ELSE [u EXCEPT !.tried = Append(@, [ver |-> u.cands[u.i], hit |-> FALSE]),
                   !.i = @ + 1]

\* One turn of the loop of lines 257-266 on candidate u.cands[u.i], where
\* name is what find_apk_in_release found: the locals afterwards.
candidate_step(u, name) ==
    IF name # None
    THEN [u EXCEPT !.tried = Append(@, [ver |-> u.cands[u.i], hit |-> TRUE]),
                   !.sel = u.cands[u.i], !.apk = name, !.i = Len(u.cands) + 1]
    ELSE [u EXCEPT !.tried = Append(@, [ver |-> u.cands[u.i], hit |-> FALSE]),
                   !.i = @ + 1]

\* Lines 257-270.
FindApk ==
    /\ pc = "find"
    /\ \E t \in {x \in FindApkTable :
                    x[1] = unit.app /\ x[2] = unit.cands[unit.i]} :
         LET f == t[3]
             u == candidate_step(unit, f.name)
         IN  IF f.raised THEN Raise /\ UNCHANGED unit
             ELSE /\ unit' = u
                  /\ IF u.i <= Len(u.cands)
                     THEN /\ pc' = "find"
                          /\ UNCHANGED <<idx, results, success_count,
                                         exit_status>>
                     ELSE IF u.apk = None THEN Return(FALSE)
                     ELSE /\ pc' = "download"
                          /\ UNCHANGED <<idx, results, success_count,
                                         exit_status>>
    /\ UNCHANGED <<env, apps, fs, started, requests, patch_call, fetch_failed,
                   summary, rq, rs>>

\* Lines 272-285 with download_file's value ignored, as fetch_tools
\* ignores it: the unit goes on after a failed download.
DownloadApk_unchecked ==
    /\ pc = "download"
    /\ \E d \in Downloads(DownloadPath(unit.apk)), bundle \in BOOLEAN :
             /\ fs' = [fs EXCEPT ![DownloadPath(unit.apk)] = d.file]
             /\ requests' = d.reqs
             /\ UNCHANGED <<idx, results, success_count, exit_status>>
             /\ IF \E e \in BUNDLE_EXTS : EndsWith(unit.apk, e)
                THEN /\ pc' = "fetch_apkeditor"
                     /\ unit' = [unit EXCEPT !.bundle = bundle]
                ELSE /\ pc' = "patch"
                     /\ unit' = [unit EXCEPT !.bundle = bundle,
                                             !.final = "local"]
    /\ UNCHANGED <<env, apps, started, patch_call, fetch_failed, summary,
                   rq, rs>>

\* Lines 272-285: the download, then the choice by the file's extension.
\* What the file holds is the storage's business: bundle says whether it
\* is an archive of nested packages.
DownloadApk ==
    /\ pc = "download"
    /\ \E d \in Downloads(DownloadPath(unit.apk)), bundle \in BOOLEAN :
             /\ fs' = [fs EXCEPT ![DownloadPath(unit.apk)] = d.file]
             /\ requests' = d.reqs
             /\ IF ~d.ok THEN Raise /\ UNCHANGED unit
                ELSE /\ UNCHANGED <<idx, results, success_count, exit_status>>
                     /\ IF \E e \in BUNDLE_EXTS : EndsWith(unit.apk, e)
                        THEN /\ pc' = "fetch_apkeditor"
                             /\ unit' = [unit EXCEPT !.bundle = bundle]
                        ELSE /\ pc' = "patch"
                             /\ unit' = [unit EXCEPT !.bundle = bundle,
                                                     !.final = "local"]
    /\ UNCHANGED <<env, apps, started, patch_call, fetch_failed, summary,
                   rq, rs>>

\* fetch_apkeditor, lines 134-142.
FetchApkEditor ==
    /\ pc = "fetch_apkeditor"
    /\ IF fs[APKEDITOR_PATH] # "absent"
       THEN /\ pc' = "merge"
            /\ UNCHANGED <<fs, requests, idx, results, success_count,
                           exit_status>>
       ELSE \E d \in Downloads(APKEDITOR_PATH) :
                  /\ fs' = [fs EXCEPT ![APKEDITOR_PATH] = d.file]
                  /\ requests' = d.reqs
                  /\ IF ~d.ok THEN Raise
                     ELSE /\ pc' = "merge"
                          /\ UNCHANGED <<idx, results, success_count,
                                         exit_status>>
    /\ UNCHANGED <<env, apps, unit, started, patch_call, fetch_failed, summary,
                   rq, rs>>

\* merge_bundle, lines 204-229: APKEditor merges or exits with an error.
MergeBundle ==
    /\ pc = "merge"
    /\ \E ok \in IF fs[APKEDITOR_PATH] = "complete" THEN BOOLEAN ELSE {FALSE} :
         IF ok
         THEN /\ unit' = [unit EXCEPT !.final = "merged"]
              /\ pc' = "patch"
              /\ UNCHANGED <<idx, results, success_count, exit_status>>
         ELSE Raise /\ UNCHANGED unit
    /\ UNCHANGED <<env, apps, fs, started, requests, patch_call, fetch_failed,
                   summary, rq, rs>>

\* Lines 287-302: the patch tool runs on final_apk_path.
PatchApk ==
    /\ pc = "patch"
    /\ patch_call' =
         [called |-> TRUE,
          input |-> IF unit.final = "local" /\ unit.bundle
                    THEN "bundle" ELSE "single",
          merged |-> unit.final = "merged",
          version |-> unit.sel]
    /\ \E ok \in IF ToolsUsable THEN BOOLEAN ELSE {FALSE} :
         IF ok THEN Return(TRUE) ELSE Raise
    /\ UNCHANGED <<env, apps, fs, unit, started, requests, fetch_failed,
                   summary, rq, rs>>

(***************************************************************************)
(* main, after the loop.                                                   *)
(***************************************************************************)
\* Lines 337-338.
Summary ==
    /\ pc = "loop"
    /\ idx > Len(apps)
    /\ summary' = TRUE
    /\ pc' = "write_env"
    /\ UNCHANGED <<env, apps, fs, idx, success_count, exit_status, unit,
                   started, results, requests, patch_call, fetch_failed,
                   rq, rs>>

\* Lines 340-347: os.environ['GITHUB_ENV'] raises KeyError when the
\* variable is not set, and the process ends with the traceback's status.
WriteEnvAndExit ==
    /\ pc = "write_env"
    /\ \E github_env \in BOOLEAN :
         IF ~github_env THEN Exit(1)
         ELSE Exit(IF success_count = 0 THEN 1 ELSE 0)
    /\ UNCHANGED <<env, apps, fs, idx, success_count, unit, started, results,
                   requests, patch_call, fetch_failed, summary, rq, rs>>

Next ==
    \/ MainStart
    \/ FetchCli
    \/ FetchPatches
    \/ StartUnit
    \/ ResolveVersions
    \/ FindApk
    \/ DownloadApk
    \/ FetchApkEditor
    \/ MergeBundle
    \/ PatchApk
    \/ Summary
    \/ WriteEnvAndExit

Spec == Init /\ [][Next]_vars

(***************************************************************************)
(* The resolvers on their own: get_target_versions as patch_app calls it   *)
(* (the manual version is what parse_version_override made of VERSION) and *)
(* get_compatible_version as main of build_logic.py calls it (VERSION as   *)
(* it is), over every app, value of VERSION and run of the listing tool.   *)
(***************************************************************************)
ResolverInit ==
    /\ env = [source |-> "", token |-> FALSE, version |-> AUTO]
    /\ apps = <<>>
    /\ pc = "resolver"
    /\ fs = [f \in Files |-> "absent"]
    /\ idx = 1
    /\ success_count = 0
    /\ exit_status = -1
    /\ unit = IdleUnit
    /\ started = <<>>
    /\ results = <<>>
    /\ requests = <<>>
    /\ patch_call = NoPatchCall
    /\ fetch_failed = FALSE
    /\ summary = FALSE
    /\ rq \in [kind : {"call"}, app : ResolverApps, version : VersionInputs,
               run : ToolRuns]
    /\ rs = Idle

CallGetTargetVersions ==
    /\ rq.kind = "call" /\ rs = Idle
    /\ LET manual == parse_version_override(rq.version, <<rq.app>>)
       IN  rs' = [kind |-> "target", manual |-> manual,
                  result |-> get_target_versions(PKG_MAP[rq.app], manual,
                                                 rq.run)]
    /\ UNCHANGED <<env, apps, pc, fs, idx, success_count, exit_status, unit,
                   started, results, requests, patch_call, fetch_failed,
                   summary, rq>>

CallGetCompatibleVersion ==
    /\ rq.kind = "call" /\ rs = Idle
    /\ \E r \in get_compatible_version(PKG_MAP[rq.app], rq.version, rq.run) :
         rs' = [kind |-> "compatible", manual |-> rq.version, result |-> r]
    /\ UNCHANGED <<env, apps, pc, fs, idx, success_count, exit_status, unit,
                   started, results, requests, patch_call, fetch_failed,
                   summary, rq>>

ResolverNext == CallGetTargetVersions \/ CallGetCompatibleVersion

ResolverSpec == ResolverInit /\ [][ResolverNext]_vars

(***************************************************************************)
(* The Release Locator on its own: fetch_tools.get_asset and, in           *)
(* check_versions.py, download_asset, over every release and extension.    *)
(***************************************************************************)
\* Asset names of a release: those of the tool releases and a signature
\* of the complete jar.
LocatorAssetNames ==
    ToolAssetNames \cup { <<"cli", "-", "all", ".jar", ".asc">> }

LocatorReleases ==
    {NoRelease} \cup
    {[ok |-> TRUE, assets |-> a] : a \in SeqsUpTo(LocatorAssetNames, MaxAssets)}

\* How the download inside download_asset goes: the file is there already,
\* it is downloaded, or requests raises.
DownloadCourses == {"exists", "ok", "raises"}

\* download_asset of check_versions.py: the same loop as get_asset; the
\* file name is returned unless the download raises, which the except
\* turns into None.
download_asset(release, extension, course) ==
    IF ~release.ok THEN None
    ELSE LET name == GetAssetFrom(release.assets, extension, 1)
         IN  IF name # None /\ course = "raises" THEN None ELSE name

LocatorInit ==
    /\ env = [source |-> "", token |-> FALSE, version |-> AUTO]
    /\ apps = <<>>
    /\ pc = "locator"
    /\ fs = [f \in Files |-> "absent"]
    /\ idx = 1
    /\ success_count = 0
    /\ exit_status = -1
    /\ unit = IdleUnit
    /\ started = <<>>
    /\ results = <<>>
    /\ requests = <<>>
    /\ patch_call = NoPatchCall
    /\ fetch_failed = FALSE
    /\ summary = FALSE
    /\ rq \in [kind : {"locate"}, release : LocatorReleases,
               ext : {".jar", ".rvp"}]
    /\ rs = Idle

CallGetAsset ==
    /\ rq.kind = "locate" /\ rs = Idle
    /\ rs' = [kind |-> "get_asset", course |-> "ok",
              name |-> get_asset(rq.release, rq.ext)]
    /\ UNCHANGED <<env, apps, pc, fs, idx, success_count, exit_status, unit,
                   started, results, requests, patch_call, fetch_failed,
                   summary, rq>>

CallDownloadAsset ==
    /\ rq.kind = "locate" /\ rs = Idle
    /\ \E course \in DownloadCourses :
         rs' = [kind |-> "download_asset", course |-> course,
                name |-> download_asset(rq.release, rq.ext, course)]
    /\ UNCHANGED <<env, apps, pc, fs, idx, success_count, exit_status, unit,
                   started, results, requests, patch_call, fetch_failed,
                   summary, rq>>

LocatorNext == CallGetAsset \/ CallDownloadAsset

LocatorSpec == LocatorInit /\ [][LocatorNext]_vars

(***************************************************************************)
(* The Source Scraper: download_apk of build_logic.py with scrape_apkpure  *)
(* and scrape_apkmirror.  Every requests.get is a step; its answer is      *)
(* drawn at the step and logged in requests with its status (0: the        *)
(* request raises).  rs holds downloaded_path.                             *)
(***************************************************************************)
HEADERS == {"User-Agent"}

ScrapeStatuses == {0, 200, 403}

ScrapeVersions == { <<"1", ".", "2">>, <<"1", ".", "1", "0">> }

Query(url, status) == [url |-> url, headers |-> HEADERS, status |-> status]

ScrapePath(package_name, version) ==
    <<"downloads">> \o package_name \o <<"_">> \o version \o <<".apk">>

ScraperInit ==
    /\ env = [source |-> "", token |-> FALSE, version |-> AUTO]
    /\ apps = <<>>
    /\ pc = "apkpure_search"
    /\ fs = [f \in Files |-> "absent"]
    /\ idx = 1
    /\ success_count = 0
    /\ exit_status = -1
    /\ unit = IdleUnit
    /\ started = <<>>
    /\ results = <<>>
    /\ requests = <<>>
    /\ patch_call = NoPatchCall
    /\ fetch_failed = FALSE
    /\ summary = FALSE
    /\ rq \in [kind : {"scrape"}, app : ResolverApps, version : ScrapeVersions]
    /\ rs = [kind |-> "path", path |-> None]

ScraperUnchanged ==
    UNCHANGED <<env, apps, fs, idx, success_count, unit, started, results,
                patch_call, fetch_failed, summary, rq>>

\* scrape_apkpure, lines 147-157: the search; the status is not looked at,
\* a page without a result link returns None, an exception returns None.
ApkpureSearch ==
    /\ pc = "apkpure_search"
    /\ \E status \in ScrapeStatuses, first_result \in BOOLEAN :
         /\ first_result => status = 200
         /\ requests' = Append(requests, Query("apkpure:search", status))
         /\ pc' = IF first_result THEN "apkpure_page" ELSE "apkmirror"
    /\ UNCHANGED <<rs, exit_status>>
    /\ ScraperUnchanged

\* scrape_apkpure, lines 163-172: the download page; without a download
\* link the function falls off its end and returns None.
ApkpurePage ==
    /\ pc = "apkpure_page"
    /\ \E status \in ScrapeStatuses, download_link \in BOOLEAN :
         /\ download_link => status = 200
         /\ requests' = Append(requests, Query("apkpure:page", status))
         /\ pc' = IF download_link THEN "apkpure_download" ELSE "apkmirror"
    /\ UNCHANGED <<rs, exit_status>>
    /\ ScraperUnchanged

\* scrape_apkpure, lines 173-176, with download_file of build_logic.py:
\* raise_for_status raises on a failing status, the except returns None.
ApkpureDownload ==
    /\ pc = "apkpure_download"
    /\ \E status \in ScrapeStatuses :
         /\ requests' = Append(requests, Query("apkpure:file", status))
         /\ IF status = 200
            THEN /\ rs' = [kind |-> "path",
                           path |-> ScrapePath(PKG_MAP[rq.app], rq.version)]
                 /\ pc' = "download_apk_return"
            ELSE /\ pc' = "apkmirror"
                 /\ UNCHANGED rs
    /\ UNCHANGED exit_status
    /\ ScraperUnchanged

\* scrape_apkmirror: one search; 403 returns None at once, and so does
\* every other course (a row found is not followed).
Apkmirror ==
    /\ pc = "apkmirror"
    /\ \E status \in ScrapeStatuses :
         requests' = Append(requests, Query("apkmirror:search", status))
    /\ pc' = "download_apk_return"
    /\ UNCHANGED <<rs, exit_status>>
    /\ ScraperUnchanged

\* download_apk, lines 229-232: error() exits when no source gave a path.
DownloadApkReturn ==
    /\ pc = "download_apk_return"
    /\ IF rs.path = None
       THEN pc' = "exit" /\ exit_status' = 1
       ELSE pc' = "scraped" /\ UNCHANGED exit_status
    /\ UNCHANGED <<rs, requests>>
    /\ ScraperUnchanged

ScraperNext ==
    \/ ApkpureSearch
    \/ ApkpurePage
    \/ ApkpureDownload
    \/ Apkmirror
    \/ DownloadApkReturn

ScraperSpec == ScraperInit /\ [][ScraperNext]_vars

(***************************************************************************)
(* fetch_tools called twice over one tools directory, which may hold       *)
(* files from before: idx is the number of the call, and rs keeps the      *)
(* files and the requests of the last download as the first call left      *)
(* them.                                                                   *)
(***************************************************************************)
ToolPaths == {CLI_PATH, PATCHES_PATH}

FileStates == {"absent", "partial", "complete"}

FetchInit ==
    /\ env \in [source : {"revanced", "nosuchsource"}, token : BOOLEAN,
                version : {AUTO}]
    /\ apps = <<>>
    /\ pc = "fetch_cli"
    /\ fs \in {f \in [Files -> FileStates] :
                  \A x \in Files \ ToolPaths : f[x] = "absent"}
    /\ idx = 1
    /\ success_count = 0
    /\ exit_status = -1
    /\ unit = IdleUnit
    /\ started = <<>>
    /\ results = <<>>
    /\ requests = <<>>
    /\ patch_call = NoPatchCall
    /\ fetch_failed = FALSE
    /\ summary = FALSE
    /\ rq = [kind |-> "fetch"]
    /\ rs = Idle

\* fetch_tools has returned and is called again.
FetchToolsAgain ==
    /\ pc = "loop" /\ idx = 1 /\ rq.kind = "fetch"
    /\ pc' = "fetch_cli"
    /\ idx' = 2
    /\ rs' = [kind |-> "first_call", fs |-> fs, reqs |-> requests]
    /\ requests' = <<>>
    /\ UNCHANGED <<env, apps, fs, success_count, exit_status, unit, started,
                   results, patch_call, fetch_failed, summary, rq>>

FetchNext == FetchCli \/ FetchPatches \/ FetchToolsAgain

FetchSpec == FetchInit /\ [][FetchNext]_vars

(***************************************************************************)
(* Properties.                                                             *)
(***************************************************************************)
Range(f) == {f[i] : i \in DOMAIN f}

\* C1: in patch_app the candidates are tried in list order, the loop stops
\* at the first candidate for which an asset is found, no candidate after
\* it is tried, and the version downloaded and named in the output file is
\* that candidate.
C1_FirstMatchWins ==
    LET t == unit.tried
    IN  /\ Len(t) <= Len(unit.cands)
        /\ \A i \in 1..Len(t) : t[i].ver = unit.cands[i]
        /\ \A i \in 1..Len(t) : t[i].hit => i = Len(t)
        /\ unit.sel # None <=> (t # <<>> /\ t[Len(t)].hit)
        /\ unit.sel # None =>
              /\ unit.sel = t[Len(t)].ver
              /\ IsPrefix(<<unit.app, "-", "v">> \o unit.sel, unit.apk)
        /\ pc \in {"download", "fetch_apkeditor", "merge", "patch"} =>
              unit.sel # None
        /\ patch_call.called =>
              unit.sel # None /\ patch_call.version = unit.sel

\* A miss, then a hit, with a third candidate left untried.
C1_Witness ==
    /\ pc = "download"
    /\ Len(unit.cands) = 3
    /\ Len(unit.tried) = 2
    /\ ~unit.tried[1].hit
    /\ unit.tried[2].hit
    /\ unit.sel = unit.cands[2]

\* C2: a batch run that got past the tool fetch ends with success_count
\* the number of units patch_app returned True for, and with a failing
\* status exactly when that number is zero.
C2_ExitIffNoSuccess ==
    pc = "exit" =>
        /\ success_count = Cardinality({i \in 1..Len(results) : results[i]})
        /\ exit_status # 0 <=> success_count = 0

\* The positions of the control inside one unit of work.
UnitPcs ==
    {"resolve", "find", "download", "fetch_apkeditor", "merge", "patch"}

\* The keys started are a prefix of the batch list, one per turn of the
\* loop; the summary is logged only when all are started; and every
\* state before the end has a next step (at "resolve" the step exists
\* when get_target_versions has an outcome).
C3_BatchState ==
    /\ started = SubSeq(apps, 1, Len(started))
    /\ Len(started) = IF pc \in UnitPcs THEN idx ELSE idx - 1
    /\ Len(results) = idx - 1
    /\ summary => started = apps
    /\ pc \in {"write_env", "exit"} => summary
    /\ pc \notin {"exit", "aborted"} =>
          IF pc = "resolve" THEN TargetVersionsResults # {}
          ELSE ENABLED Next

StageNo(p) ==
    CASE p = "main" -> 0 [] p = "fetch_cli" -> 1 [] p = "fetch_patches" -> 2
      [] p = "loop" -> 3 [] p = "resolve" -> 4 [] p = "find" -> 5
      [] p = "download" -> 6 [] p = "fetch_apkeditor" -> 7 [] p = "merge" -> 8
      [] p = "patch" -> 9 [] p = "write_env" -> 10 [] p = "exit" -> 11
      [] p = "aborted" -> 11

Position == <<idx, StageNo(pc), Len(unit.tried)>>

\* C3: a skipped unit never aborts the batch: the app keys are started
\* once each, in list order, whatever the earlier units came to, every
\* state before the end has a next step, every step moves on in the batch
\* (so the batch comes to its end), and the end is reached with every key
\* started and the summary logged.
C3_BatchRunsToSummary ==
    [] C3_BatchState /\ [][ListLess(Position, Position')]_vars

\* Two units, both skipped, and the batch at its end.
C3_Witness ==
    /\ pc = "exit"
    /\ summary
    /\ apps = <<"nosuchapp", "youtube">>
    /\ started = apps
    /\ results = <<FALSE, FALSE>>

\* C4: the patch tool is never run on a bundle: a downloaded bundle has
\* been merged and the patch tool is given the merged package.
C4_PatchInputNeverBundle ==
    patch_call.called =>
        /\ patch_call.input # "bundle"
        /\ unit.bundle => patch_call.merged

\* C5: when a step of fetching the tool or the patch-set fails (no release
\* index, no asset left by the filter, the download failing) no unit of
\* work is started.
C5_FetchFailureAborts == fetch_failed => started = <<>> /\ ~summary

\* C6: a file that exists at a download destination is complete.
C6_NoPartialFile == \A f \in Files : fs[f] # "partial"

\* C7: in download_file no request but the first, to the URL asked for,
\* carries an Authorization header.
C7_NoAuthToRedirectTarget ==
    \A i \in 1..Len(requests) :
        (i > 1 \/ requests[i].url # "url") =>
            "Authorization" \notin requests[i].headers

\* A token is set, the first request carried it, the second did not.
C7_Witness ==
    /\ env.token
    /\ Len(requests) = 2
    /\ "Authorization" \in requests[1].headers
    /\ requests[2].url = "Location"
    /\ "Authorization" \notin requests[2].headers

\* C8: in automatic mode the list get_target_versions returns is strictly
\* descending by the integers of the dotted components.
C8_StrictlyDescending ==
    (rs.kind = "target" /\ rs.manual \in {<<>>, AUTO} /\ ~rs.result.raised) =>
        LET v == rs.result.versions
        IN  \A i \in 1..(Len(v) - 1) :
                ListLess(VersionSortKey(v[i + 1]), VersionSortKey(v[i]))

\* C9: given a version other than "auto" the resolver returns it as the
\* only candidate and does not run the listing tool.
C9_ManualOverride ==
    /\ (rs.kind \in {"target", "compatible"} /\ rs.manual \notin {<<>>, AUTO}) =>
          IF rs.kind = "target"
          THEN rs.result = [raised |-> FALSE, versions |-> <<rs.manual>>,
                            invoked |-> FALSE]
          ELSE rs.result = [kind |-> "version", value |-> rs.manual,
                            invoked |-> FALSE]
    /\ (rs.kind = "target" /\ ~HasChar(rq.version, "=")
                           /\ rq.version \notin {<<>>, AUTO}) =>
          rs.manual = rq.version

\* The override names this app, and the tool would have failed.
C9_Witness ==
    /\ rs.kind = "target"
    /\ rq.app = "youtube"
    /\ rq.version = <<"youtube", "=", "1", ".", "1", "0">>
    /\ rq.run.err
    /\ rs.result.versions = << <<"1", ".", "1", "0">> >>
    /\ ~rs.result.invoked

\* Some line of the output announces the package in the grouped form.
Announces(out, package_name) ==
    \E i \in 1..Len(out) : PkgMatch(Strip(out[i])) = package_name

\* The versions the output reports for the package, read in the grouped
\* form when it announces the package and in the inline form otherwise.
ReportedVersions(out, package_name) ==
    IF Announces(out, package_name)
    THEN Range(ScanGrouped(out, package_name, NoMatch, <<>>))
    ELSE ScanInline(out, package_name, {})

\* C10: the versions the output reports for the package, in the grouped
\* form when it announces the package and in the inline form otherwise,
\* are all in the list get_target_versions returns.
C10_NoVersionDropped ==
    (rs.kind = "target" /\ rs.manual \in {<<>>, AUTO} /\ ~rq.run.err) =>
        ReportedVersions(rq.run.out, PKG_MAP[rq.app])
            \subseteq Range(rs.result.versions)

\* The assets the selection rule keeps: the name ends with the extension,
\* has no "source" marker and, for the jar, is the complete variant when
\* one of the jars without a "source" marker is.
Survives(assets, ext, i) ==
    LET Candidate(j) == EndsWith(assets[j], ext) /\ ~HasWord(assets[j], "source")
    IN  /\ Candidate(i)
        /\ (ext = ".jar" /\ \E j \in 1..Len(assets) :
                               Candidate(j) /\ HasWord(assets[j], "all"))
              => HasWord(assets[i], "all")

FirstSurvivor(assets, ext) ==
    LET kept == {i \in 1..Len(assets) : Survives(assets, ext, i)}
    IN  IF kept = {} THEN None
        ELSE assets[CHOOSE i \in kept : \A j \in kept : i <= j]

\* C11: the locator returns the first asset, in release order, that the
\* selection rule keeps, and none only when the release index could not be
\* retrieved or the rule keeps no asset.
C11_FirstSurvivingAsset ==
    (rs.kind \in {"get_asset", "download_asset"} /\ rs.course # "raises") =>
        rs.name = IF rq.release.ok
                  THEN FirstSurvivor(rq.release.assets, rq.ext)
                  ELSE None

\* The positions in requests of the queries to url.
QueriesTo(url) == {i \in 1..Len(requests) : requests[i].url = url}

CatalogQueries == {"apkpure:search", "apkmirror:search"}

\* C12: when the scraper is through with its sources, a catalog query that
\* was answered with 403 has been sent exactly twice, and every other
\* request, failed or not, once at most.
C12_DeniedQueryRetriedOnce ==
    pc \in {"scraped", "exit"} =>
        /\ \A url \in CatalogQueries :
             LET q == QueriesTo(url)
             IN  IF \E i \in q : requests[i].status = 403 /\ \A j \in q : i <= j
                 THEN Cardinality(q) = 2
                 ELSE Cardinality(q) <= 1
        /\ \A url \in {"apkpure:page", "apkpure:file"} :
             Cardinality(QueriesTo(url)) <= 1

\* A fetch step at which the file is there changes no file and sends no
\* request; a file is only ever written where there was none.
FetchStepIdempotent ==
    /\ (pc = "fetch_cli" /\ fs[CLI_PATH] # "absent" /\ pc' # "aborted") =>
          fs' = fs /\ requests' = requests
    /\ (pc = "fetch_patches" /\ fs[PATCHES_PATH] # "absent"
                              /\ pc' # "aborted") =>
          fs' = fs /\ requests' = requests
    /\ \A f \in Files : fs'[f] # fs[f] => fs[f] = "absent"
    /\ pc' = "fetch_patches" => pc = "fetch_cli"
    /\ pc' = "fetch_cli" => pc = "loop" /\ idx = 1

\* In the second call the files the first call left are left as they
\* were, and when both were there no download request is sent.
SecondCallState ==
    rs.kind = "first_call" =>
        /\ \A f \in ToolPaths : rs.fs[f] # "absent" => fs[f] = rs.fs[f]
        /\ (\A f \in ToolPaths : rs.fs[f] # "absent") => requests = <<>>

\* C13: the tool and the patch-set are each fetched in one step of a call,
\* a fetch whose file exists downloads nothing, and a second call of
\* fetch_tools leaves the files of the first and sends no download request.
C13_FetchOnceAndIdempotent ==
    [] SecondCallState /\ [][FetchStepIdempotent]_vars

\* The first call downloaded both files, the second has returned.
C13_Witness ==
    /\ rs.kind = "first_call"
    /\ rs.reqs # <<>>
    /\ \A f \in ToolPaths : rs.fs[f] = "complete"
    /\ pc = "loop" /\ idx = 2
    /\ fs = rs.fs
    /\ requests = <<>>

\* The state of a unit of work at a position of patch_app: 0 PENDING,
\* 1 VERSION_RESOLVED, 2 ARTIFACT_ACQUIRED, 3 NORMALIZED.
UnitStage(p) ==
    CASE p = "resolve" -> 0
      [] p \in {"find", "download"} -> 1
      [] p \in {"fetch_apkeditor", "merge"} -> 2
      [] p = "patch" -> 3

\* The asset of the selected candidate is downloaded, wholly.
ArtifactAcquired ==
    /\ unit.cands # <<>>
    /\ unit.sel \in Range(unit.cands)
    /\ unit.apk # None
    /\ fs[DownloadPath(unit.apk)] = "complete"

\* What has been reached at each state of the unit, and when the patch
\* tool has been run.
UnitStageReached ==
    /\ (pc \in UnitPcs /\ UnitStage(pc) >= 1) => unit.cands # <<>>
    /\ (pc \in UnitPcs /\ UnitStage(pc) >= 2) => ArtifactAcquired
    /\ (pc = "patch" \/ patch_call.called) =>
          /\ ArtifactAcquired
          /\ unit.final \in {"local", "merged"}
          /\ unit.final = "merged" <=>
                \E e \in BUNDLE_EXTS : EndsWith(unit.apk, e)
    /\ pc \in UnitPcs => ~patch_call.called

\* A step of a unit goes to the same or the next state; the unit ends
\* once, with one result; the patch tool runs from NORMALIZED only; True
\* is returned by the step that ran it, on tools that can run; an unknown
\* key is skipped in one step that touches no file and sends no request.
UnitStep ==
    /\ (pc \in UnitPcs /\ pc' \in UnitPcs) =>
          /\ idx' = idx
          /\ UnitStage(pc) <= UnitStage(pc')
          /\ \/ UnitStage(pc') <= UnitStage(pc) + 1
             \/ /\ pc = "download" /\ pc' = "patch"   \* strip_monolithic_apk
                /\ unit'.final = "local"              \* only passes through
                /\ fs'[DownloadPath(unit.apk)] = "complete"
    /\ (pc' = "resolve" /\ pc # "resolve") => pc = "loop"
    /\ \/ results' = results
       \/ /\ Len(results') = Len(results) + 1
          /\ SubSeq(results', 1, Len(results)) = results
          /\ pc' = "loop" /\ idx' = idx + 1
          /\ pc \in UnitPcs \cup {"loop"}
          /\ results'[Len(results')] =>
                pc = "patch" /\ patch_call'.called /\ ToolsUsable
    /\ (patch_call'.called /\ ~patch_call.called) => pc = "patch"
    /\ (pc = "loop" /\ idx <= Len(apps) /\ apps[idx] \notin DOMAIN PKG_MAP) =>
          /\ results' = Append(results, FALSE)
          /\ pc' = "loop"
          /\ fs' = fs
          /\ requests' = <<>>
          /\ ~patch_call'.called

\* C14: a unit of work moves forward only, state by state, and ends once;
\* the patch tool is run only after the version is resolved, the asset
\* found and wholly downloaded and the package normalized; True is
\* returned only by a successful run of it; an unknown key is skipped
\* before any tool or network call.
C14_UnitMovesForward == [] UnitStageReached /\ [][UnitStep]_vars

\* An unknown key skipped, then a bundle merged and patched.
C14_Witness ==
    /\ apps = <<"nosuchapp", "youtube">>
    /\ results = <<FALSE, TRUE>>
    /\ pc = "loop"
    /\ patch_call.called /\ patch_call.merged
    /\ unit.final = "merged"

\* Line i of the output announces a package.
IsAnnouncement(out, i) == PkgMatch(Strip(out[i])) # NoMatch

\* The lines of the output that start with a dotted version and lie
\* behind an announcement of package_name with no other announcement in
\* between.
VersionLinesOf(out, package_name) ==
    {j \in 1..Len(out) :
        /\ ~IsAnnouncement(out, j)
        /\ VersionMatch(Strip(out[j])) # NoMatch
        /\ \E i \in 1..(j - 1) :
              /\ PkgMatch(Strip(out[i])) = package_name
              /\ \A k \in (i + 1)..(j - 1) : ~IsAnnouncement(out, k)}

\* C15: in automatic mode get_target_versions returns the tokens of the
\* version lines under the announcements of the package, one entry a line
\* and none from under another package, and raises when there is no such
\* line or the listing tool fails.
C15_GroupedAttribution ==
    (rs.kind = "target" /\ rs.manual \in {<<>>, AUTO}) =>
        LET package_name == PKG_MAP[rq.app]
            own == IF rq.run.err THEN {}
                   ELSE VersionLinesOf(rq.run.out, package_name)
        IN  /\ rs.result.raised <=> own = {}
            /\ ~rs.result.raised =>
                  /\ Range(rs.result.versions) =
                        {VersionMatch(Strip(rq.run.out[j])) : j \in own}
                  /\ Len(rs.result.versions) = Cardinality(own)

\* A version under youtube, then one under reddit: only the first is
\* returned for youtube.
C15_Witness ==
    /\ rs.kind = "target"
    /\ rq.app = "youtube"
    /\ rq.version = AUTO
    /\ ~rq.run.err
    /\ rq.run.out = << <<"PN:", " ">> \o YOUTUBE, <<"1", ".", "1", "0">>,
                       <<"PN:", " ">> \o REDDIT, <<"v", "1", ".", "2">> >>
    /\ rs.result.versions = << <<"1", ".", "1", "0">> >>

=============================================================================
